---------------------------- MODULE Spec2Model ----------------------------
(***************************************************************************)
(* friend-connector (src/friend_connector.py): a command line tool over a  *)
(* SQLite store with three tables, friends, contacts and goals.            *)
(*                                                                         *)
(* The store is the only state that survives an invocation.  Each command  *)
(* is one transaction (`with get_db() as db`): it commits when the handler *)
(* returns and rolls back when the handler raises.  `out` records what the *)
(* last invocation showed the user and how the process ended.  print_history*)
(* (the dim line of latest contacts per medium) and blank lines are not    *)
(* part of `out`.                                                          *)
(*                                                                         *)
(* Representation.                                                         *)
(*   friends   the friends table as a sequence of names; a row's id is its *)
(*             index (AUTOINCREMENT, and no command deletes a friend).     *)
(*   goals     the goals table as a set of rows.  The primary key          *)
(*             (friend_id, medium) is not built into the representation:   *)
(*             it is what the handlers have to maintain.                   *)
(*   contacts  the contacts table as a bag of rows (the id column is never *)
(*             read by the program).                                       *)
(*   dates     a valid YYYY-MM-DD text is modelled by its day number; the  *)
(*             text order of such dates is the order of the day numbers.   *)
(*   NULL      an SQL value that may be NULL is a sequence of length 0 or  *)
(*             1.                                                          *)
(*   reals     percent_overdue is a REAL in SQL; it is kept as an exact    *)
(*             fraction [num, den] and compared by cross multiplication.   *)
(***************************************************************************)
EXTENDS Integers, Sequences, FiniteSets, Bags, TLC

VARIABLES friends, goals, contacts, out

vars == <<friends, goals, contacts, out>>
store == <<friends, goals, contacts>>

(***************************************************************************)
(* Bounds and input alphabets.                                             *)
(***************************************************************************)
\* The most goals and contacts rows the store is let grow to under Spec and
\* under SpecHierarchy, and the day number of the current local date.
MaxGoals == 3
MaxContacts == 2
HierarchyMaxGoals == 1
HierarchyMaxContacts == 2
Today == 40

\* The names used, in the order of SQLite's BINARY collation ("" is first).
NameOrder == <<"", "Amy", "Bob">>

\* The four values of class Medium.
Medium == {"meet", "call", "talk", "text"}

\* The command lines tried under Spec: two names, one of them empty, two
\* media, two goal frequencies whose percentages differ by less than one, two
\* dates (today, the default, and an older one).
SpecNames == {"", "Amy"}
SpecMedia == {"call", "text"}
SpecFrequencies == {0, 99, 100}
SpecDates == {Today, Today - 33}

\* The command lines tried under SpecHierarchy: two names, all four media,
\* one goal frequency, two dates.
HierarchyNames == {"Amy", "Bob"}
HierarchyFrequencies == {0, 7}
HierarchyDates == {Today, Today - 33}

(***************************************************************************)
(* SQL helpers.                                                            *)
(***************************************************************************)
NULL == <<>>
IsNull(v) == v = <<>>
Some(v) == <<v>>
Val(v) == v[1]

\* SELECT * FROM friends WHERE name = ? : the ids of the matching rows.
FriendIds(fr, name) == {i \in DOMAIN fr : fr[i] = name}

\* (SELECT id FROM friends WHERE name = ?) as a scalar subquery.
FriendIdOrNull(fr, name) ==
    IF FriendIds(fr, name) = {} THEN NULL
    ELSE Some(CHOOSE i \in FriendIds(fr, name) : TRUE)

BagSize(b) == BagCardinality(b)


(***************************************************************************)
(* Initial state: init_db() creates the three tables, empty.               *)
(***************************************************************************)
NoOutput == [exit |-> 0, said |-> "nothing", lines |-> <<>>]

Init ==
    /\ friends = <<>>
    /\ goals = {}
    /\ contacts = EmptyBag
    /\ out = NoOutput

\* The store a command finds when it opens the database.
get_db == [friends |-> friends, goals |-> goals, contacts |-> contacts]

\* What a command that prints one message and ends shows: the exit status of
\* the process and the message, without the arguments it quotes.  "done"
\* stands for the confirmation a command prints after its statement succeeded
\* ("Added ...", "Set goal ...", "Removed goal ...", "Renamed ...", "... with
\* ... on ..."); an uncaught sqlite3.IntegrityError (exit status 1) is shown
\* by its message.
Report(exit, said) == [exit |-> exit, said |-> said, lines |-> <<>>]

\* A handler is a function of the store it finds and of its arguments; its
\* value is the store it leaves (committed, or rolled back) and what it showed.
Result(db, shown) == [db |-> db, out |-> shown]

(***************************************************************************)
(* add <name>                                                              *)
(***************************************************************************)
\* Faulty variant of add: the name column without its UNIQUE constraint.
add_without_unique(db, name) ==
    Result([db EXCEPT !.friends = Append(@, name)], Report(0, "done"))

\* name TEXT UNIQUE NOT NULL: the INSERT raises sqlite3.IntegrityError, which
\* nothing catches (exit status 1), and the transaction is rolled back.
add(db, name) ==
    IF FriendIds(db.friends, name) # {}
    THEN Result(db, Report(1, "UNIQUE constraint failed: friends.name"))
    ELSE Result([db EXCEPT !.friends = Append(@, name)], Report(0, "done"))

(***************************************************************************)
(* goal <name> <medium> <frequency>                                        *)
(***************************************************************************)
\* Faulty variant of DeleteGoal: the DELETE without its medium condition.
DeleteGoal_any_medium(gl, id, medium) ==
    {g \in gl : g.friend_id # id}

\* DELETE FROM goals WHERE friend_id = ? AND medium = ?
DeleteGoal(gl, id, medium) ==
    {g \in gl : ~(g.friend_id = id /\ g.medium = medium)}

\* Faulty variant of UpsertGoal: a plain INSERT into a table without the primary key.
UpsertGoal_insert_only(gl, id, medium, frequency) ==
    gl \cup {[friend_id |-> id, medium |-> medium, frequency |-> frequency]}

\* INSERT ... ON CONFLICT (friend_id, medium) DO UPDATE SET frequency =
\* excluded.frequency
UpsertGoal(gl, id, medium, frequency) ==
    IF \E g \in gl : g.friend_id = id /\ g.medium = medium
    THEN {IF g.friend_id = id /\ g.medium = medium
             THEN [g EXCEPT !.frequency = frequency] ELSE g : g \in gl}
    ELSE gl \cup {[friend_id |-> id, medium |-> medium, frequency |-> frequency]}

goal(db, name, medium, frequency) ==
    LET friend == FriendIdOrNull(db.friends, name) IN
    IF IsNull(friend)
    THEN Result(db, Report(0, "not found in friends"))
    ELSE IF frequency = 0
    THEN Result([db EXCEPT !.goals = DeleteGoal(@, Val(friend), medium)],
                Report(0, "done"))
    ELSE Result([db EXCEPT !.goals = UpsertGoal(@, Val(friend), medium, frequency)],
                Report(0, "done"))

(***************************************************************************)
(* rename <name> <new_name>                                                *)
(***************************************************************************)
\* The handler's body.  UPDATE friends SET name = ? WHERE name = ? raises
\* IntegrityError (UNIQUE) when another row holds new_name; lines 116-118
\* only read.
rename(db, name, new_name) ==
    IF FriendIds(db.friends, name) = {}
    THEN Result(db, Report(0, "not present in friends table"))
    ELSE IF \E i \in DOMAIN db.friends :
                db.friends[i] = new_name /\ db.friends[i] # name
    THEN Result(db, Report(1, "UNIQUE constraint failed: friends.name"))
    ELSE Result([db EXCEPT !.friends =
                     [i \in DOMAIN @ |-> IF @[i] = name THEN new_name ELSE @[i]]],
                Report(0, "done"))

(***************************************************************************)
(* contact <name> <medium> [--date D]                                      *)
(***************************************************************************)
\* friend_id is the scalar subquery; it is NULL for an unknown name, and
\* friend_id INTEGER NOT NULL then makes the INSERT raise IntegrityError.
contact(db, name, medium, date) ==
    LET friend_id == FriendIdOrNull(db.friends, name) IN
    IF IsNull(friend_id)
    THEN Result(db, Report(1, "NOT NULL constraint failed: contacts.friend_id"))
    ELSE Result([db EXCEPT !.contacts =
                     @ (+) SetToBag({[friend_id |-> Val(friend_id),
                                      date |-> date, medium |-> medium]})],
                Report(0, "done"))

(***************************************************************************)
(* list: the query                                                         *)
(***************************************************************************)
\* Faulty variant of medium_hierarchy: the ranks of 'call' and 'talk' exchanged.
medium_hierarchy_call_below_talk(column) ==
    CASE column = "meet" -> 4
      [] column = "talk" -> 3
      [] column = "call" -> 2
      [] column = "text" -> 1
      [] OTHER -> 0

\* CASE {column} WHEN 'meet' THEN 4 ... ELSE 0 END
medium_hierarchy(column) ==
    CASE column = "meet" -> 4
      [] column = "call" -> 3
      [] column = "talk" -> 2
      [] column = "text" -> 1
      [] OTHER -> 0

\* LEFT JOIN contacts c ON f.id = c.friend_id AND rank(c.medium) >= rank(g.medium)
JoinCondition(id, c, medium) ==
    /\ id = c.friend_id
    /\ medium_hierarchy(c.medium) >= medium_hierarchy(medium)

JoinedContacts(ct, id, medium) ==
    {c \in BagToSet(ct) : JoinCondition(id, c, medium)}

SetMax(S) == CHOOSE x \in S : \A y \in S : y <= x

\* MAX(c.date): NULL over a group whose only joined row is the LEFT JOIN's
\* all-NULL row.
last_valid_contact(ct, id, medium) ==
    IF JoinedContacts(ct, id, medium) = {} THEN NULL
    ELSE Some(SetMax({c.date : c \in JoinedContacts(ct, id, medium)}))

\* CAST(x AS INTEGER) and Python's int(x) both drop the fraction (toward 0).
Trunc(num, den) ==
    LET n == IF den < 0 THEN -num ELSE num
        d == IF den < 0 THEN -den ELSE den
    IN IF n >= 0 THEN n \div d ELSE -((-n) \div d)

\* CAST((julianday('now','localtime') - julianday(date)) AS INTEGER).
\* julianday('now') carries the time of day, a fraction in [0, 1), so the
\* difference is (Today - date) + fraction; the fraction taken here is one
\* strictly between 0 and 1.
days_since(last) ==
    IF IsNull(last) THEN NULL
    ELSE Some(IF Today - Val(last) >= 0 THEN Today - Val(last)
              ELSE Today - Val(last) + 1)

\* Faulty variant of percent_overdue: days_since / frequency * 100 in integers.
percent_overdue_divide_first(days, frequency) ==
    IF IsNull(days) THEN NULL
    ELSE Some([num |-> 100 * Trunc(Val(days), frequency), den |-> 1])

\* 100.0 * days_since / g.frequency: a REAL, kept exact as a fraction.
percent_overdue(days, frequency) ==
    IF IsNull(days) THEN NULL
    ELSE Some([num |-> 100 * Val(days), den |-> frequency])

\* The order of two REALs: -1, 0, 1.
RealCmp(x, y) ==
    LET sx == IF x.den < 0 THEN -1 ELSE 1
        sy == IF y.den < 0 THEN -1 ELSE 1
        l == sx * x.num * sy * y.den
        r == sy * y.num * sx * x.den
    IN IF l < r THEN -1 ELSE IF l > r THEN 1 ELSE 0

\* ORDER BY v DESC over values that may be NULL: SQLite takes NULL as smaller
\* than every value, so it comes last.  -1: x first, 1: y first, 0: tie.
DescCmp(x, y) ==
    IF IsNull(x) /\ IsNull(y) THEN 0
    ELSE IF IsNull(x) THEN 1
    ELSE IF IsNull(y) THEN -1
    ELSE -RealCmp(Val(x), Val(y))

\* The groups of GROUP BY f.id, g.medium over friends f JOIN goals g.
Groups(fr, gl) ==
    {<<g.friend_id, g.medium>> : g \in {h \in gl : h.friend_id \in DOMAIN fr}}

\* The inner SELECT: one row per group.  g.frequency is a bare column: it is
\* the frequency of a goals row of the group (the primary key leaves one).
InnerRow(fr, gl, ct, id, medium) ==
    LET frequency == (CHOOSE g \in gl : g.friend_id = id /\ g.medium = medium).frequency
        last == last_valid_contact(ct, id, medium)
    IN [id |-> id, name |-> fr[id], medium |-> medium, frequency |-> frequency,
        last_valid_contact |-> last,
        days_since |-> days_since(last),
        percent_overdue |-> percent_overdue(days_since(last), frequency)]

\* Faulty variant of InnerRows: JOIN contacts instead of LEFT JOIN contacts.
InnerRows_inner_join(fr, gl, ct) ==
    {InnerRow(fr, gl, ct, k[1], k[2]) :
        k \in {h \in Groups(fr, gl) : JoinedContacts(ct, h[1], h[2]) # {}}}

InnerRows(fr, gl, ct) ==
    {InnerRow(fr, gl, ct, k[1], k[2]) : k \in Groups(fr, gl)}

\* MAX(percent_overdue) OVER (PARTITION BY id): MAX skips NULLs and is NULL
\* when every value of the partition is NULL.
most_overdue(inner, id) ==
    LET vals == {r.percent_overdue : r \in {q \in inner : q.id = id}} \ {NULL}
    IN IF vals = {} THEN NULL
       ELSE CHOOSE v \in vals : \A w \in vals : RealCmp(Val(w), Val(v)) <= 0

QueryRows(fr, gl, ct) ==
    LET inner == InnerRows(fr, gl, ct)
    IN {[name |-> r.name, medium |-> r.medium, frequency |-> r.frequency,
         days_since |-> r.days_since, percent_overdue |-> r.percent_overdue,
         last_valid_contact |-> r.last_valid_contact,
         most_overdue |-> most_overdue(inner, r.id)] : r \in inner}

NameIndex(name) == CHOOSE i \in 1..Len(NameOrder) : NameOrder[i] = name

\* ORDER BY most_overdue DESC, name, percent_overdue DESC: a comes strictly
\* before b.
OrderedBefore(a, b) ==
    LET c1 == DescCmp(a.most_overdue, b.most_overdue)
        c3 == DescCmp(a.percent_overdue, b.percent_overdue)
    IN \/ c1 < 0
       \/ c1 = 0 /\ NameIndex(a.name) < NameIndex(b.name)
       \/ c1 = 0 /\ a.name = b.name /\ c3 < 0

\* Every sequence of the rows that ORDER BY allows: rows that tie on all three
\* keys come in an order SQL does not fix.
RECURSIVE Orderings(_)
Orderings(S) ==
    IF S = {} THEN {<<>>}
    ELSE UNION {{<<r>> \o t : t \in Orderings(S \ {r})} :
                   r \in {q \in S : \A p \in S : ~OrderedBefore(p, q)}}

(***************************************************************************)
(* list: the loop that prints                                              *)
(***************************************************************************)
\* The colour of a goal line whose friend has a valid contact.
Format(percent) ==
    IF percent >= 100 THEN "red"
    ELSE IF percent >= 75 THEN "dark_orange"
    ELSE IF percent >= 50 THEN "gold1"
    ELSE "green"

\* The goal line of a row.  days and percent are the loop's variables (0 and
\* 100 for NULL); the line prints them, with the date, only when logged.
\* `name` is not printed on the line: it records whose row it is.
GoalLine(row) ==
    LET days == IF IsNull(row.days_since) THEN 0 ELSE Val(row.days_since)
        percent == IF IsNull(row.percent_overdue) THEN 100
                   ELSE Trunc(Val(row.percent_overdue).num, Val(row.percent_overdue).den)
    IN IF IsNull(row.last_valid_contact)
       THEN [kind |-> "goal", name |-> row.name, medium |-> row.medium,
             frequency |-> row.frequency, logged |-> FALSE,
             last |-> 0, days |-> days, percent |-> percent, format |-> "red"]
       ELSE [kind |-> "goal", name |-> row.name, medium |-> row.medium,
             frequency |-> row.frequency, logged |-> TRUE,
             last |-> Val(row.last_valid_contact), days |-> days,
             percent |-> percent, format |-> Format(percent)]

HeaderLine(name) ==
    [kind |-> "header", name |-> name, medium |-> "", frequency |-> 0,
     logged |-> FALSE, last |-> 0, days |-> 0, percent |-> 0, format |-> ""]

\* for row in rows: a header whenever the name differs from prev_name, which
\* starts as "".
RECURSIVE Render(_, _)
Render(rows, prev_name) ==
    IF rows = <<>> THEN <<>>
    ELSE LET row == Head(rows) IN
         (IF prev_name # row.name THEN <<HeaderLine(row.name)>> ELSE <<>>)
         \o <<GoalLine(row)>>
         \o Render(Tail(rows), row.name)

\* What `list` may show: one output for every order the query may return.
list(db) ==
    {IF rows = <<>>
        THEN Report(0, "Friends list is empty")
        ELSE [exit |-> 0, said |-> "rows", lines |-> Render(rows, "")] :
     rows \in Orderings(QueryRows(db.friends, db.goals, db.contacts))}

(***************************************************************************)
(* The command line                                                        *)
(***************************************************************************)
\* The handlers Typer has registered when app() runs.  @app.command() (lines
\* 62, 74, 121, 140) registers the function below it.  Line 103 has no call
\* parentheses: app.command receives the function rename as its `name`
\* argument, returns a decorator nobody applies, and registers nothing.
registered_commands == {"add", "goal", "contact", "list"}

\* app() on a command that is not registered: Click's usage error, exit
\* status 2, before any handler runs.
NoSuchCommand(db) == Result(db, Report(2, "No such command"))

\* `friends rename <name> <new_name>` as app() dispatches it.
app_rename(db, name, new_name) ==
    IF "rename" \in registered_commands THEN rename(db, name, new_name)
    ELSE NoSuchCommand(db)

\* The store and the output after a command ended.
Run(result) ==
    /\ friends' = result.db.friends
    /\ goals' = result.db.goals
    /\ contacts' = result.db.contacts
    /\ out' = result.out

Add(name) == Run(add(get_db, name))
Goal(name, medium, frequency) == Run(goal(get_db, name, medium, frequency))
Rename(name, new_name) == Run(app_rename(get_db, name, new_name))
Contact(name, medium, date) == Run(contact(get_db, name, medium, date))
List == \E shown \in list(get_db) : Run(Result(get_db, shown))

\* One invocation of the program, its arguments drawn from the given sets.  A
\* command that would grow goals or contacts past the given sizes is not tried.
Invoke(names, media, frequencies, dates, maxGoals, maxContacts) ==
    \/ \E name \in names : Add(name)
    \/ \E name \in names, medium \in media, frequency \in frequencies :
          Goal(name, medium, frequency) /\ Cardinality(goals') <= maxGoals
    \/ \E name \in names, medium \in media, date \in dates :
          BagSize(contacts) < maxContacts /\ Contact(name, medium, date)
    \/ \E name \in names, new_name \in names : Rename(name, new_name)
    \/ List

Next == Invoke(SpecNames, SpecMedia, SpecFrequencies, SpecDates, MaxGoals, MaxContacts)

Spec == Init /\ [][Next]_vars

NextHierarchy ==
    Invoke(HierarchyNames, Medium, HierarchyFrequencies, HierarchyDates,
           HierarchyMaxGoals, HierarchyMaxContacts)

SpecHierarchy == Init /\ [][NextHierarchy]_vars

(***************************************************************************)
(* Properties.  A property of a command is stated of the command's result  *)
(* in every reachable store, for every command line over the names,        *)
(* frequencies and dates of both specifications and all four media.        *)
(***************************************************************************)
AnyName == {NameOrder[i] : i \in 1..Len(NameOrder)}
AnyFrequency == SpecFrequencies \cup HierarchyFrequencies
AnyDate == SpecDates \cup HierarchyDates

Known(name) == \E i \in DOMAIN friends : friends[i] = name
IdOf(name) == CHOOSE i \in DOMAIN friends : friends[i] = name

\* The goals rows of one (friend, medium).
GoalsOf(gl, id, medium) == {g \in gl : g.friend_id = id /\ g.medium = medium}

\* `list` was the last command and printed rows.
Listed == out.said = "rows"
GoalIdx == {i \in DOMAIN out.lines : out.lines[i].kind = "goal"}

UniqueNamesIn(fr) == \A i, j \in DOMAIN fr : fr[i] = fr[j] => i = j

\* C5: no two stored friends ever have the same name; `add` of a stored name
\* ends with the uncaught uniqueness error and leaves the store as it was; and
\* `rename` (the command as dispatched, and the handler's body), whatever its
\* arguments, leaves as many friends as there were, all with different names,
\* and changes nothing when another friend holds new_name.
C5_UniqueFriendNames ==
    /\ UniqueNamesIn(friends)
    /\ \A name \in AnyName :
          Known(name) =>
              add(get_db, name) =
                  Result(get_db, Report(1, "UNIQUE constraint failed: friends.name"))
    /\ \A name, new_name \in AnyName :
          \A r \in {app_rename(get_db, name, new_name),
                    rename(get_db, name, new_name)} :
              /\ Len(r.db.friends) = Len(friends)
              /\ UniqueNamesIn(r.db.friends)
              /\ Known(new_name) /\ name # new_name => r.db = get_db

\* C5 witness: two friends are stored and the last command, `add` of a stored
\* name, ended with the uncaught uniqueness error.
C5_Witness ==
    /\ Len(friends) = 2
    /\ out = Report(1, "UNIQUE constraint failed: friends.name")

UniqueGoalKeys ==
    \A g, h \in goals : g.friend_id = h.friend_id /\ g.medium = h.medium => g = h

\* C10: there is at most one goal per (friend, medium); `goal` with a
\* frequency other than 0 for a stored friend leaves exactly one goal of that
\* friend and medium, with the given frequency, and changes no other goal, no
\* friend and no contact.
C10_GoalUpsert ==
    /\ UniqueGoalKeys
    /\ \A name \in AnyName, medium \in Medium, frequency \in AnyFrequency \ {0} :
          Known(name) =>
              LET after == goal(get_db, name, medium, frequency).db IN
              /\ GoalsOf(after.goals, IdOf(name), medium) =
                    {[friend_id |-> IdOf(name), medium |-> medium,
                      frequency |-> frequency]}
              /\ after.goals \ GoalsOf(after.goals, IdOf(name), medium) =
                    goals \ GoalsOf(goals, IdOf(name), medium)
              /\ after.friends = friends
              /\ after.contacts = contacts

\* C10 witness: one friend holds a goal of frequency 99 and a goal of
\* frequency 100 and `goal` has just succeeded.
C10_Witness ==
    /\ Cardinality(goals) = 2
    /\ \E g, h \in goals :
          g.frequency = 99 /\ h.frequency = 100 /\ g.friend_id = h.friend_id
    /\ out = Report(0, "done")

\* The (friend, medium) pairs that have a goal.
GoalKeys(gl) == {<<g.friend_id, g.medium>> : g \in gl}

\* The results of every command line that is not a `goal`.
ResultsOfOtherCommands ==
    {add(get_db, n) : n \in AnyName}
    \cup {app_rename(get_db, n[1], n[2]) : n \in AnyName \X AnyName}
    \cup {contact(get_db, c[1], c[2], c[3]) : c \in AnyName \X Medium \X AnyDate}

\* C6: `goal <name> <medium> 0` for a stored friend removes the goal of that
\* friend and medium and changes nothing else; `list` never has a row for a
\* (friend, medium) that has no goal; and a (friend, medium) gets a goal only
\* from `goal` for that friend and medium with a frequency other than 0.
C6_RemoveGoal ==
    /\ \A name \in AnyName, medium \in Medium :
          Known(name) =>
              LET after == goal(get_db, name, medium, 0).db IN
              /\ after.goals = goals \ GoalsOf(goals, IdOf(name), medium)
              /\ after.friends = friends
              /\ after.contacts = contacts
    /\ Listed =>
          \A i \in GoalIdx :
              \E g \in goals : /\ friends[g.friend_id] = out.lines[i].name
                               /\ g.medium = out.lines[i].medium
    /\ \A r \in ResultsOfOtherCommands : GoalKeys(r.db.goals) = GoalKeys(goals)
    /\ \A name \in AnyName, medium \in Medium, frequency \in AnyFrequency :
          LET gained == GoalKeys(goal(get_db, name, medium, frequency).db.goals)
                           \ GoalKeys(goals)
          IN IF frequency # 0 /\ Known(name)
             THEN gained \subseteq {<<IdOf(name), medium>>}
             ELSE gained = {}

\* C6 witness: a friend with a contact is left with one goal, for "text",
\* and `list` shows that row alone.
C6_Witness ==
    /\ Listed
    /\ Len(friends) = 1
    /\ \E g \in goals : goals = {g} /\ g.medium = "text"
    /\ contacts # EmptyBag
    /\ Cardinality(GoalIdx) = 1

\* C7: the goal lines of `list` correspond one to one to the stored goals
\* (same friend name, medium and frequency), every header is the name of a
\* friend that has a goal, and `list` says the list is empty exactly when no
\* goal is stored.
C7_RowsAreGoals ==
    /\ out.said = "Friends list is empty" => goals = {}
    /\ Listed =>
          /\ goals # {}
          /\ Cardinality(GoalIdx) = Cardinality(goals)
          /\ \A g \in goals :
                Cardinality({i \in GoalIdx :
                                /\ out.lines[i].name = friends[g.friend_id]
                                /\ out.lines[i].medium = g.medium
                                /\ out.lines[i].frequency = g.frequency}) = 1
          /\ \A i \in DOMAIN out.lines :
                \E g \in goals : friends[g.friend_id] = out.lines[i].name

\* C7 witness: two friends are stored, one without a goal; `list` showed one
\* header and one row, for a goal that two contacts count toward.
C7_Witness ==
    /\ Listed
    /\ Len(friends) = 2
    /\ Cardinality(goals) = 1
    /\ Len(out.lines) = 2
    /\ \E g \in goals :
          /\ BagSize(contacts) = 2
          /\ \A c \in BagToSet(contacts) : JoinCondition(g.friend_id, c, g.medium)

\* The media from the least rich to the richest.
Richness == <<"text", "talk", "call", "meet">>
RichnessOf(medium) == CHOOSE i \in 1..Len(Richness) : Richness[i] = medium

\* The contacts of the friend called name that are at least as rich as medium.
Counting(name, medium) ==
    {c \in BagToSet(contacts) :
        /\ friends[c.friend_id] = name
        /\ RichnessOf(c.medium) >= RichnessOf(medium)}

\* C3: a row of `list` has a last valid contact exactly when some contact of
\* the same friend is at least as rich as the goal's medium (text < talk <
\* call < meet), and it is the latest date among those contacts.
C3_MediumHierarchy ==
    Listed =>
        \A i \in GoalIdx :
            LET line == out.lines[i]
                counting == Counting(line.name, line.medium)
            IN /\ line.logged <=> counting # {}
               /\ line.logged =>
                     /\ \E c \in counting : c.date = line.last
                     /\ \A c \in counting : c.date <= line.last

\* C3 witness: a "text" goal whose last valid contact is a "meet" of 33 days
\* ago, while the other friend has a contact of today.
C3_Witness ==
    /\ Listed
    /\ \E i \in GoalIdx :
          /\ out.lines[i].medium = "text"
          /\ out.lines[i].logged
          /\ out.lines[i].last = Today - 33
          /\ \E c \in BagToSet(contacts) :
                /\ friends[c.friend_id] = out.lines[i].name
                /\ c.medium = "meet"
          /\ \E c \in BagToSet(contacts) :
                /\ friends[c.friend_id] # out.lines[i].name
                /\ c.date = Today

\* C8: a row whose goal has a frequency f > 0 and whose last valid contact is
\* d >= 0 days before today shows d days and floor(100 * d / f) percent; after
\* add A, goal A call 7 and contact A call on a date, `list` shows the header
\* A and one "call" row with that date.
C8_DaysAndPercent ==
    Listed =>
        /\ \A i \in GoalIdx :
              LET line == out.lines[i] IN
              line.logged /\ line.frequency > 0 /\ Today - line.last >= 0 =>
                  /\ line.days = Today - line.last
                  /\ line.percent = (100 * (Today - line.last)) \div line.frequency
        /\ \A name \in AnyName, date \in AnyDate :
              (/\ friends = <<name>>
               /\ goals = {[friend_id |-> 1, medium |-> "call", frequency |-> 7]}
               /\ contacts = SetToBag({[friend_id |-> 1, date |-> date,
                                        medium |-> "call"]}))
              => /\ Len(out.lines) = 2
                 /\ out.lines[1].kind = "header" /\ out.lines[1].name = name
                 /\ out.lines[2].kind = "goal" /\ out.lines[2].medium = "call"
                 /\ out.lines[2].logged /\ out.lines[2].last = date
                 /\ out.lines[2].percent = (100 * (Today - date)) \div 7

\* C8 witness: Amy, one goal (call, every 7 days), one call 33 days ago: the
\* row shows 33 days and 471%.
C8_Witness ==
    /\ Listed
    /\ friends = <<"Amy">>
    /\ contacts = SetToBag({[friend_id |-> 1, date |-> Today - 33, medium |-> "call"]})
    /\ Len(out.lines) = 2
    /\ out.lines[2].medium = "call" /\ out.lines[2].frequency = 7
    /\ out.lines[2].days = 33 /\ out.lines[2].percent = 471

\* The goal lines of the friend called name, and the largest percent among
\* them (a goal with no valid contact counts as 100, the loop's default).
LinesOf(name) == {i \in GoalIdx : out.lines[i].name = name}
MostOverdueShown(name) == SetMax({out.lines[i].percent : i \in LinesOf(name)})
ListedNames == {out.lines[i].name : i \in GoalIdx}

\* C1: in `list`, a friend with a goal that has no valid contact is ranked
\* as 100% overdue: the friend's rows come before the rows of every friend
\* whose goals are all below 100%, and friends that tie come by name.
C1_NoContactRanksAs100 ==
    Listed =>
        \A a, b \in ListedNames :
            (/\ a # b
             /\ \E i \in LinesOf(a) : ~out.lines[i].logged
             /\ \/ MostOverdueShown(b) < MostOverdueShown(a)
                \/ /\ MostOverdueShown(b) = MostOverdueShown(a)
                   /\ NameIndex(a) < NameIndex(b))
            => \A i \in LinesOf(a), j \in LinesOf(b) : i < j

\* A command said that the friend was not found, and ended normally.
SaidNotFound(shown) ==
    /\ shown.exit = 0
    /\ shown.said \in {"not found in friends", "not present in friends table"}

\* C2: `goal`, `rename` and `contact` with a name no friend has say that the
\* friend was not found, end normally and change nothing.
C2_UnknownNameNotFound ==
    [][\A name \in AnyName :
          ~Known(name) =>
              /\ \A medium \in Medium, frequency \in AnyFrequency :
                    Goal(name, medium, frequency) =>
                        SaidNotFound(out') /\ store' = store
              /\ \A new_name \in AnyName :
                    Rename(name, new_name) =>
                        SaidNotFound(out') /\ store' = store
              /\ \A medium \in Medium, date \in AnyDate :
                    Contact(name, medium, date) =>
                        SaidNotFound(out') /\ store' = store]_vars

\* What `list` shows under a name: its goal lines, without the name.
RowsUnder(db, name) ==
    {[medium |-> r.medium, frequency |-> r.frequency,
      last_valid_contact |-> r.last_valid_contact, days_since |-> r.days_since,
      percent_overdue |-> r.percent_overdue] :
        r \in {q \in QueryRows(db.friends, db.goals, db.contacts) : q.name = name}}

\* C4: `rename <name> <new_name>` of a stored friend to a name nobody holds
\* gives the friend the new name, keeps every goal and contact, changes no
\* other friend, and `list` then shows under new_name the rows it showed
\* under name.
C4_RenamePreserves ==
    [][\A name, new_name \in AnyName :
          Known(name) /\ ~Known(new_name) /\ Rename(name, new_name) =>
              /\ friends' = [i \in DOMAIN friends |->
                               IF friends[i] = name THEN new_name ELSE friends[i]]
              /\ goals' = goals
              /\ contacts' = contacts
              /\ RowsUnder(get_db', new_name) = RowsUnder(get_db, name)]_vars

\* C9: when every row of `list` shows a percent, the friends come in
\* descending order of the largest percent shown among their rows, friends
\* that tie come by name, and a friend's rows come in descending order of the
\* percent shown.
C9_OrderedByShownPercent ==
    Listed /\ (\A i \in GoalIdx : out.lines[i].logged) =>
        \A i, j \in GoalIdx :
            i < j =>
                LET a == out.lines[i].name
                    b == out.lines[j].name
                IN IF a = b
                   THEN out.lines[i].percent >= out.lines[j].percent
                   ELSE \/ MostOverdueShown(a) > MostOverdueShown(b)
                        \/ /\ MostOverdueShown(a) = MostOverdueShown(b)
                           /\ NameIndex(a) < NameIndex(b)

=============================================================================
